---- MODULE Spec2Model ----
(***************************************************************************)
(* Resumable batch orchestration of youtube-bulk-upload (TypeScript).      *)
(*                                                                         *)
(* The model follows one operating-system process at a time: the process   *)
(* is constructed (ProgressTracker loads the progress file), runs either   *)
(* processSpreadsheet or retryFailedUploads, and exits or is interrupted.  *)
(* The progress file and the spreadsheet outlive the process; everything   *)
(* else is lost on an interruption.  fs.writeFileSync is taken as a single *)
(* step: the file holds either the previous or the new content; when it    *)
(* throws (the file could not be opened) the file keeps its content.       *)
(***************************************************************************)
EXTENDS Integers, Sequences, FiniteSets, TLC

VARIABLES
  sheet,          \* the spreadsheet: what fetchSpreadsheetData returns
  faults,         \* the kinds of call that can fail in this environment
  file,           \* content of the progress file
  scratch,        \* the scratch files that exist, by their path
  pc,             \* position of the running process, "off" when there is none
  mode,           \* "normal" or "retry" (--retry-failed)
  progress,       \* ProgressTracker.progress
  rows,           \* rows of processSpreadsheet / processVideoRows
  startRow,       \* startRow of processSpreadsheet
  i,              \* loop index of processVideoRows
  outcome,        \* how the last awaited processVideo ended: "ok" or its error message
  calls,          \* the collaborator calls that processVideo call made, with their results
  error,          \* the message of the error the catch block of processVideoRows caught
  fatalError,     \* the message of the error that ended the run, "none" without one
  exitCode,       \* exit code of the last process that exited, -1 when it did not exit
  failedUploads,  \* the copy retryFailedUploads takes of progress.failedUploads
  runs,           \* process starts so far
  lastOp,         \* the ProgressTracker method the last step called, or "none"
  opWrites,       \* writeFile calls of that method that completed
  opThrew,        \* whether that method threw instead of returning
  opBefore,       \* progress as that method found it
  marked,         \* ids for which markVideoProcessed has returned
  reprocessed,    \* ids passed to processVideo after markVideoProcessed returned for them
  invoked,        \* row indexes passed to processVideo in the current pass, in order
  startFile,      \* the progress file as the current process found it
  prevFailed,     \* rows recorded as failed before the current pass, id not completed at its start
  failedRows,     \* rows recorded as failed since the last pass started
  succeededRows,  \* rows whose transfer succeeded in the current pass
  history,        \* where kept: the rows whose upload has succeeded and for which
                  \* markVideoProcessed has not returned since; where counted: the
                  \* ids whose upload has succeeded once and more than once, and
                  \* the ids for which processVideo has returned
  beforeRetry,    \* progress as retryFailedUploads found it
  flights,        \* the processVideo calls a caller has started side by side, by id
  stream          \* one downloadFile call and the uploadVideo call after it: the
                  \* chunks the source has handed to the write stream, the chunks
                  \* the write stream has written to the scratch file, and what
                  \* the upload saw of the file

vars == <<sheet, faults, file, scratch, pc, mode, progress, rows, startRow, i, outcome, calls, error,
          fatalError, exitCode, failedUploads, runs, lastOp, opWrites, opThrew, opBefore,
          marked, reprocessed, invoked, startFile, prevFailed, failedRows, succeededRows,
          history, beforeRetry, flights, stream>>

\* ------------------------------------------------------------------ bounds
MaxRows == 2        \* data rows of the spreadsheet (after the header)
MaxRuns == 3        \* process starts in one behaviour

\* ------------------------------------------------------------- work list
Ids == {"v1", "v2"}

Header == <<"Drive Link", "Title", "Description", "Tags", "Unique ID">>

VideoRow(id) == <<"https://drive.google.com/file/d/abc", "Title", "Desc", "tag1", id>>

ShortRow == <<"https://drive.google.com/file/d/abc", "Title">>

RowPool == {VideoRow(id) : id \in Ids} \cup {ShortRow}

RECURSIVE SeqsUpTo(_, _)
SeqsUpTo(S, n) ==
  IF n = 0 THEN {<<>>}
  ELSE LET shorter == SeqsUpTo(S, n - 1)
       IN  shorter \cup {Append(s, x) : s \in {t \in shorter : Len(t) = n - 1}, x \in S}

\* What fetchSpreadsheetData can return: nothing, or a header and data rows.
WorkLists == {<<>>} \cup {<<Header>> \o s : s \in SeqsUpTo(RowPool, MaxRows)}

\* A row whose link matches none of the patterns of extractFileIdFromDriveLink.
MalformedLinkRow(id) == <<"not-a-valid-url", "Title", "Desc", "tag1", id>>

\* A row without cells.
EmptyRow == <<>>

\* Work lists with a row whose link is malformed and with rows that do not parse.
LinkRowPool == {VideoRow("v1"), MalformedLinkRow("v2"), EmptyRow, ShortRow}

LinkWorkLists == {<<Header>> \o s : s \in SeqsUpTo(LinkRowPool, MaxRows)}

Range(s) == {s[k] : k \in 1..Len(s)}

\* rows[i] of the code (0-based) is sheet[i + 1].
RowAt(sheetRows, n) == sheetRows[n + 1]

\* Rows that differ in their cells: the tags cell empty, with several tags and
\* with blanks around them, each required cell empty in turn, a cell too few
\* and a cell too many.
Link == "https://drive.google.com/file/d/abc"

CellRowPool ==
  { VideoRow("v1"),
    <<Link, "Title", "Desc", "", "v1">>,
    <<Link, "Title", "Desc", "a, b", "v2">>,
    <<Link, "Title", "Desc", " a ,,b ", "v2">>,
    <<"", "Title", "Desc", "tag1", "v1">>,
    <<Link, "", "Desc", "tag1", "v1">>,
    <<Link, "Title", "", "tag1", "v1">>,
    <<Link, "Title", "Desc", "tag1", "">>,
    <<Link, "Title", "Desc", "tag1">>,
    <<Link, "Title", "Desc", "tag1", "v2", "extra">> }

CellWorkLists == {<<Header>> \o s : s \in SeqsUpTo(CellRowPool, MaxRows)}

\* The characters of the tags cells of the work lists.
Chars(text) ==
  CASE text = "" -> <<>>
    [] text = "tag1" -> <<"t", "a", "g", "1">>
    [] text = "a, b" -> <<"a", ",", " ", "b">>
    [] text = " a ,,b " -> <<" ", "a", " ", ",", ",", "b", " ">>

WhiteSpace == {" ", "\t", "\n"}

\* String.prototype.split(','): the pieces between the commas, in order; a
\* string without a comma is its only piece.
RECURSIVE split(_)
split(chars) ==
  IF \A k \in 1..Len(chars) : chars[k] # "," THEN <<chars>>
  ELSE LET first == CHOOSE k \in 1..Len(chars) :
                      chars[k] = "," /\ \A j \in 1..(k - 1) : chars[j] # ","
       IN  <<SubSeq(chars, 1, first - 1)>> \o split(SubSeq(chars, first + 1, Len(chars)))

\* String.prototype.trim(): the white space at both ends is taken away.
RECURSIVE trim(_)
trim(chars) ==
  IF chars = <<>> THEN chars
  ELSE IF chars[1] \in WhiteSpace THEN trim(Tail(chars))
  ELSE IF chars[Len(chars)] \in WhiteSpace THEN trim(SubSeq(chars, 1, Len(chars) - 1))
  ELSE chars

\* Tags that keep the blanks around them.
tagsOf_NoTrim(tagString) ==
  IF tagString = "" THEN <<>>
  ELSE LET pieces == split(Chars(tagString))
       IN  [k \in 1..Len(pieces) |-> pieces[k]]

\* tagString ? tagString.split(',').map((tag) => tag.trim()) : []
tagsOf(tagString) ==
  IF tagString = "" THEN <<>>
  ELSE LET pieces == split(Chars(tagString))
       IN  [k \in 1..Len(pieces) |-> trim(pieces[k])]

NoVideo == [valid |-> FALSE, uniqueId |-> "", driveLink |-> "", title |-> "", description |-> "",
            tags |-> <<>>]

\* null is the record that is not valid; a tag is kept as its characters.
parseVideoRow(row) ==
  IF Len(row) < 5 THEN NoVideo
  ELSE IF row[1] = "" \/ row[2] = "" \/ row[3] = "" \/ row[5] = "" THEN NoVideo
  ELSE [valid |-> TRUE, uniqueId |-> row[5], driveLink |-> row[1], title |-> row[2],
        description |-> row[3], tags |-> tagsOf(row[4])]

\* ------------------------------------------------------ progress state
EmptyProgress == [processedIds |-> <<>>, lastProcessedRow |-> 0, failedUploads |-> <<>>]

\* A JavaScript Set keeps insertion order and holds each value once.
SetAdd(s, x) == IF x \in Range(s) THEN s ELSE Append(s, x)

SetDelete(s, x) == SelectSeq(s, LAMBDA y : y # x)

RECURSIVE NewSet(_)
NewSet(arr) ==
  IF arr = <<>> THEN <<>>
  ELSE SetAdd(NewSet(SubSeq(arr, 1, Len(arr) - 1)), arr[Len(arr)])

Completed(p) == Range(p.processedIds)

FailedIds(p) == {p.failedUploads[k].uniqueId : k \in 1..Len(p.failedUploads)}

\* ------------------------------------------------------- progress file
\* The content of the progress file: absent, the empty string, text that is
\* not JSON, or a JSON object that holds the fields named in `has`.
Fields == {"processedIds", "lastProcessedRow", "failedUploads"}

FileOf(kind, has, ids, row, failed) ==
  [kind |-> kind, has |-> has, processedIds |-> ids, lastProcessedRow |-> row,
   failedUploads |-> failed]

Missing == FileOf("missing", {}, <<>>, 0, <<>>)

EmptyFile == FileOf("empty", {}, <<>>, 0, <<>>)

Corrupt == FileOf("corrupt", {}, <<>>, 0, <<>>)

Null == FileOf("null", {}, <<>>, 0, <<>>)

\* What a first process can find: no usable file, or a JSON object with some
\* of the fields (an array that names an id twice loads as a Set).
InitialFiles ==
  { Missing, EmptyFile, Corrupt,
    FileOf("json", {}, <<>>, 0, <<>>),
    FileOf("json", {"processedIds"}, <<"v1", "v1">>, 0, <<>>),
    FileOf("json", {"lastProcessedRow", "failedUploads"}, <<>>, 1, <<>>) }

\* serializeProgress that leaves failedUploads out of the object.
serializeProgress_NoFailures(p) ==
  FileOf("json", {"processedIds", "lastProcessedRow"}, p.processedIds, p.lastProcessedRow, <<>>)

serializeProgress(p) ==
  FileOf("json", Fields, p.processedIds, p.lastProcessedRow,
         p.failedUploads)

\* deserializeProgress that forgets the stored cursor.
deserializeProgress_DropsCursor(data) ==
  IF data.kind # "json" THEN EmptyProgress
  ELSE [processedIds |->
          IF "processedIds" \in data.has THEN NewSet(data.processedIds) ELSE <<>>,
        lastProcessedRow |-> 0,
        failedUploads |->
          IF "failedUploads" \in data.has THEN data.failedUploads ELSE <<>>]

deserializeProgress(data) ==
  IF data.kind # "json" THEN EmptyProgress
  ELSE [processedIds |->
          IF "processedIds" \in data.has THEN NewSet(data.processedIds) ELSE <<>>,
        lastProcessedRow |->
          IF "lastProcessedRow" \in data.has THEN data.lastProcessedRow ELSE 0,
        failedUploads |->
          IF "failedUploads" \in data.has THEN data.failedUploads ELSE <<>>]

readFile(f) == IF f.kind = "missing" THEN Null ELSE f

loadProgress(f) ==
  LET content == readFile(f)
  IN  IF content.kind \in {"null", "empty"} THEN EmptyProgress
      ELSE deserializeProgress(content)

\* The calls whose failure is an option of the environment: downloadFile
\* (Drive), unlinkSync of the scratch file, writeFileSync of the progress file.
FaultKinds == {"download", "unlink", "write"}

\* How a call of that kind can end where S lists the ways it can end at all.
Outcomes(kind, S) == IF kind \in faults THEN S ELSE {"ok"}

\* How fs.writeFileSync can end: it returns, or it throws before it has
\* opened the file.
WriteOutcomes == {"ok", "EBUSY: resource busy or locked"}

writeFile(old, content, w) == IF w = "ok" THEN content ELSE old

\* The tracker after a call: its in-memory state, the file, the number of
\* writeFile calls that completed, and whether the call threw.  this.progress
\* is assigned before writeFile is called.
saveProgress(p, w) ==
  [progress |-> p, file |-> writeFile(file, serializeProgress(p), w),
   writes |-> IF w = "ok" THEN 1 ELSE 0, threw |-> w # "ok"]

\* markVideoProcessed that changes the state in memory and writes nothing.
markVideoProcessed_InMemoryOnly(p, uniqueId, w) ==
  [progress |-> [p EXCEPT !.processedIds = SetAdd(@, uniqueId)], file |-> file, writes |-> 0,
   threw |-> FALSE]

\* markVideoProcessed that saves only when the id is new.
markVideoProcessed_SkipsKnownId(p, uniqueId, w) ==
  IF uniqueId \in Completed(p)
    THEN [progress |-> p, file |-> file, writes |-> 0, threw |-> FALSE]
    ELSE saveProgress([p EXCEPT !.processedIds = SetAdd(@, uniqueId)], w)

markVideoProcessed(p, uniqueId, w) ==
  saveProgress([p EXCEPT !.processedIds = SetAdd(@, uniqueId)], w)

\* markVideoFailed that keeps one entry per id.
markVideoFailed_OneEntryPerId(p, uniqueId, message, now, w) ==
  IF uniqueId \in FailedIds(p) THEN saveProgress(p, w)
  ELSE saveProgress([p EXCEPT !.failedUploads =
                       Append(@, [uniqueId |-> uniqueId, error |-> message, timestamp |-> now])], w)

markVideoFailed(p, uniqueId, message, now, w) ==
  saveProgress([p EXCEPT !.failedUploads =
                  Append(@, [uniqueId |-> uniqueId, error |-> message, timestamp |-> now])], w)

\* updateLastProcessedRow that stores the row before the one it is given.
updateLastProcessedRow_StoresPrevious(p, row, w) ==
  saveProgress([p EXCEPT !.lastProcessedRow = row - 1], w)

\* updateLastProcessedRow that stores the row after the one it is given.
updateLastProcessedRow_SkipsAhead(p, row, w) ==
  saveProgress([p EXCEPT !.lastProcessedRow = row + 1], w)

\* updateLastProcessedRow that never moves the cursor back.
updateLastProcessedRow_NeverBack(p, row, w) ==
  saveProgress([p EXCEPT !.lastProcessedRow = IF row >= @ THEN row ELSE @], w)

updateLastProcessedRow(p, row, w) ==
  saveProgress([p EXCEPT !.lastProcessedRow = row], w)

isVideoProcessed(p, uniqueId) == uniqueId \in Completed(p)

Max(a, b) == IF a >= b THEN a ELSE b

\* A pass that starts at the stored cursor, the header row included.
startRowOf_NoFloor(p) == p.lastProcessedRow

\* A pass that always starts at the first data row.
startRowOf_FromTop(p) == 1

startRowOf(p) == Max(1, p.lastProcessedRow)

\* ------------------------------------------------------ the item pipeline
\* The three patterns of extractFileIdFromDriveLink on the links of the work
\* list; "" stands for null.
extractFileIdFromDriveLink(link) ==
  CASE link = "https://drive.google.com/file/d/abc" -> "abc"
    [] link = "https://drive.google.com/open?id=abc" -> "abc"
    [] OTHER -> ""

\* config.tempDir ?? './temp_videos'
TempDir == "temp_videos"

\* The segments between the separators of `${uniqueId}.mp4`; the extension,
\* the same for every id, is left out.
Segments(uniqueId) ==
  CASE uniqueId = "./video1" -> <<".", "video1">>
    [] OTHER -> <<uniqueId>>

\* path.join normalizes the joined path: "." segments are dropped and ".."
\* takes the segment before it away.
RECURSIVE Normalize(_)
Normalize(segments) ==
  IF segments = <<>> THEN <<>>
  ELSE LET front == Normalize(SubSeq(segments, 1, Len(segments) - 1))
           seg == segments[Len(segments)]
       IN  IF seg = "." THEN front
           ELSE IF seg = ".." /\ front # <<>> /\ front[Len(front)] # ".."
             THEN SubSeq(front, 1, Len(front) - 1)
           ELSE Append(front, seg)

\* path.join(tempDir, `${videoData.uniqueId}.mp4`)
tempVideoPath(uniqueId) == Normalize(<<TempDir>> \o Segments(uniqueId))

DownloadOutcomes == {"ok", "Download failed: Network error"}

UploadOutcomes == {"ok", "Upload failed"}

UnlinkOutcomes == {"ok", "EPERM: operation not permitted, unlink"}

Errors == {"Upload failed"}

\* One call of a collaborator and how it ended.
CallOf(op, result) == [op |-> op, result |-> result]

\* try { ... } finally { this.fileOps.unlink(tempVideoPath) }: an exception
\* thrown by the finally block replaces the completion of the try block.
finallyUnlink(completion, c) == IF c = "ok" THEN completion ELSE c

\* processVideo with the unlink after the upload instead of in a finally block:
\* an upload that throws leaves the scratch file.
processVideo_UnlinkAfterUpload(videoData, files, d, u, c) ==
  LET path == tempVideoPath(videoData.uniqueId)
  IN  IF extractFileIdFromDriveLink(videoData.driveLink) = ""
        THEN [outcome |-> "Invalid Google Drive link", calls |-> <<>>, scratch |-> files]
      ELSE IF d # "ok"
        THEN [outcome |-> d,
              calls |-> <<CallOf("mkdir", "ok"), CallOf("downloadFile", d)>>,
              scratch |-> files]
      ELSE IF u # "ok"
        THEN [outcome |-> u,
              calls |-> <<CallOf("mkdir", "ok"), CallOf("downloadFile", "ok"),
                          CallOf("uploadVideo", u)>>,
              scratch |-> files \cup {path}]
      ELSE [outcome |-> finallyUnlink(u, c),
            calls |-> <<CallOf("mkdir", "ok"), CallOf("downloadFile", "ok"),
                        CallOf("uploadVideo", u), CallOf("unlink", c)>>,
            scratch |-> IF c = "ok" THEN files \ {path} ELSE files \cup {path}]

\* processVideo that creates the scratch directory before it looks at the link.
processVideo_MkdirFirst(videoData, files, d, u, c) ==
  LET path == tempVideoPath(videoData.uniqueId)
  IN  IF extractFileIdFromDriveLink(videoData.driveLink) = ""
        THEN [outcome |-> "Invalid Google Drive link", calls |-> <<CallOf("mkdir", "ok")>>,
              scratch |-> files]
      ELSE IF d # "ok"
        THEN [outcome |-> d,
              calls |-> <<CallOf("mkdir", "ok"), CallOf("downloadFile", d)>>,
              scratch |-> files]
      ELSE [outcome |-> finallyUnlink(u, c),
            calls |-> <<CallOf("mkdir", "ok"), CallOf("downloadFile", "ok"),
                        CallOf("uploadVideo", u), CallOf("unlink", c)>>,
            scratch |-> IF c = "ok" THEN files \ {path} ELSE files \cup {path}]

\* processVideo with the download inside the try block: a download that
\* fails is followed by the unlink of the finally block.
processVideo_DownloadInTry(videoData, files, d, u, c) ==
  LET path == tempVideoPath(videoData.uniqueId)
  IN  IF extractFileIdFromDriveLink(videoData.driveLink) = ""
        THEN [outcome |-> "Invalid Google Drive link", calls |-> <<>>, scratch |-> files]
      ELSE IF d # "ok"
        THEN [outcome |-> finallyUnlink(d, c),
              calls |-> <<CallOf("mkdir", "ok"), CallOf("downloadFile", d), CallOf("unlink", c)>>,
              scratch |-> files]
      ELSE [outcome |-> finallyUnlink(u, c),
            calls |-> <<CallOf("mkdir", "ok"), CallOf("downloadFile", "ok"),
                        CallOf("uploadVideo", u), CallOf("unlink", c)>>,
            scratch |-> IF c = "ok" THEN files \ {path} ELSE files \cup {path}]

\* processVideo for videoData, when downloadFile, uploadVideo and unlink end
\* as d, u and c: how it ends, the calls it made, and the scratch files left.
\* downloadFile creates the scratch file; one that fails has not created it.
processVideo(videoData, files, d, u, c) ==
  LET path == tempVideoPath(videoData.uniqueId)
  IN  IF extractFileIdFromDriveLink(videoData.driveLink) = ""
        THEN [outcome |-> "Invalid Google Drive link", calls |-> <<>>, scratch |-> files]
      ELSE IF d # "ok"
        THEN [outcome |-> d,
              calls |-> <<CallOf("mkdir", "ok"), CallOf("downloadFile", d)>>,
              scratch |-> files]
      ELSE [outcome |-> finallyUnlink(u, c),
            calls |-> <<CallOf("mkdir", "ok"), CallOf("downloadFile", "ok"),
                        CallOf("uploadVideo", u), CallOf("unlink", c)>>,
            scratch |-> IF c = "ok" THEN files \ {path} ELSE files \cup {path}]

\* ------------------------------------------------ pipelines side by side
\* The ids of the videos a caller passes to processVideo without awaiting one
\* call before it makes the next.
ConcurrentIds == {"video1", "video2", "./video1"}

\* A processVideo call: where it is, the calls it has made, how it ended, and
\* whether the scratch file it downloaded is still the one it wrote.
Idle == [pos |-> "idle", calls |-> <<>>, outcome |-> "none", intact |-> TRUE]

\* What stat and unlinkSync throw for a path that does not exist.
NoSuchFile == "ENOENT: no such file or directory"

\* The calls in flight that hold a downloaded file at `path`, other than `id`.
HoldersOf(path, id) ==
  {x \in ConcurrentIds \ {id} :
     flights[x].pos \in {"downloaded", "uploading"} /\ tempVideoPath(x) = path}

\* ------------------------------------------------- the legacy pass
\* index.ts, the program before it was split into services: its progress
\* functions and the loop of its processSpreadsheet.
legacySerializeProgress(p) ==
  FileOf("json", Fields, p.processedIds, p.lastProcessedRow, p.failedUploads)

\* parsed.processedIds || [], parsed.lastProcessedRow || 0, parsed.failedUploads || []:
\* an array is truthy, a number is falsy when it is 0.
legacyDeserializeProgress(data) ==
  IF data.kind # "json" THEN EmptyProgress
  ELSE [processedIds |->
          IF "processedIds" \in data.has THEN NewSet(data.processedIds) ELSE <<>>,
        lastProcessedRow |->
          IF "lastProcessedRow" \in data.has /\ data.lastProcessedRow # 0
            THEN data.lastProcessedRow ELSE 0,
        failedUploads |->
          IF "failedUploads" \in data.has THEN data.failedUploads ELSE <<>>]

legacyLoadProgress(f) ==
  LET content == readFile(f)
  IN  IF content.kind \in {"null", "empty"} THEN EmptyProgress
      ELSE legacyDeserializeProgress(content)

\* String(error) of an Error with that message: the name of the error, then
\* the message.
StringOfError(message) == <<"Error", message>>

\* The loop from row n on, with p in memory, f in the file and the pipeline
\* already called for the rows of `called`; the k-th call of processVideo ends
\* as outcomes[k] (as "ok" beyond the outcomes given).  A success adds the id,
\* sets the cursor and saves once; a failure appends an entry and saves.
RECURSIVE legacyLoop(_, _, _, _, _, _, _)
legacyLoop(sheetRows, p, f, n, outcomes, called, now) ==
  IF ~(n < Len(sheetRows)) THEN [file |-> f, invoked |-> called]
  ELSE LET videoData == parseVideoRow(RowAt(sheetRows, n))
       IN  IF ~videoData.valid \/ videoData.uniqueId \in Range(p.processedIds)
             THEN legacyLoop(sheetRows, p, f, n + 1, outcomes, called, now)
           ELSE LET o == IF Len(called) < Len(outcomes) THEN outcomes[Len(called) + 1] ELSE "ok"
                    q == IF o = "ok"
                           THEN [p EXCEPT !.processedIds = SetAdd(@, videoData.uniqueId),
                                          !.lastProcessedRow = n + 1]
                           ELSE [p EXCEPT !.failedUploads =
                                   Append(@, [uniqueId |-> videoData.uniqueId,
                                              error |-> StringOfError(o),
                                              timestamp |-> now])]
                IN  legacyLoop(sheetRows, q, legacySerializeProgress(q), n + 1, outcomes,
                               Append(called, n), now)

\* processSpreadsheet of index.ts: the progress file as it is left and the
\* rows processVideo was called for, in order.
legacyProcessSpreadsheet(f, sheetRows, outcomes, now) ==
  LET p == legacyLoadProgress(f)
  IN  IF Len(sheetRows) = 0 THEN [file |-> f, invoked |-> <<>>]
      ELSE legacyLoop(sheetRows, p, f, Max(1, p.lastProcessedRow), outcomes, <<>>, now)

\* ------------------------------------------------ the download stream
MaxChunks == 4      \* chunks of a downloaded file

\* No download has started: nothing read, nothing written, nothing seen.
NoStream ==
  [pos |-> "idle", chunks |-> 0, piped |-> 0, written |-> 0, size |-> -1, sent |-> -1,
   outcome |-> "none"]

\* ------------------------------------------------------------ the process
\* The history after the upload of a row has succeeded.
uploaded(h, row, id) ==
  [h EXCEPT !.unrecorded = IF h.kept THEN @ \cup {row} ELSE @,
            !.once = IF h.counted THEN @ \cup {id} ELSE @,
            !.twice = IF h.counted THEN @ \cup ({id} \cap h.once) ELSE @]

\* The history after processVideo has returned for an id.
returned(h, id) == [h EXCEPT !.returned = IF h.counted THEN @ \cup {id} ELSE @]

\* The history after markVideoProcessed has returned for a row.
recorded(h, row) == [h EXCEPT !.unrecorded = IF h.kept THEN @ \ {row} ELSE @]

NoHistory(k, c) ==
  [kept |-> k, counted |-> c, unrecorded |-> {}, once |-> {}, twice |-> {}, returned |-> {}]

Now == runs

Init ==
  /\ sheet \in WorkLists \cup LinkWorkLists \cup CellWorkLists
  /\ faults \in SUBSET FaultKinds
  /\ file \in InitialFiles
  /\ scratch = {}
  /\ pc = "off"
  /\ mode = "normal"
  /\ progress = EmptyProgress
  /\ rows = <<>>
  /\ startRow = 0
  /\ i = 0
  /\ outcome = "none"
  /\ calls = <<>>
  /\ error = "none"
  /\ fatalError = "none"
  /\ exitCode = -1
  /\ failedUploads = <<>>
  /\ runs = 0
  /\ lastOp = "none"
  /\ opWrites = 0
  /\ opThrew = FALSE
  /\ opBefore = EmptyProgress
  /\ marked = {}
  /\ reprocessed = {}
  /\ invoked = <<>>
  /\ startFile = file
  /\ prevFailed = {}
  /\ failedRows = {}
  /\ succeededRows = {}
  /\ history \in {NoHistory(k, c) : k, c \in BOOLEAN}
  /\ beforeRetry = EmptyProgress
  /\ flights = [id \in ConcurrentIds |-> Idle]
  /\ stream = NoStream

\* The step calls the ProgressTracker method `name`, which ends as r.
Call(name, r) ==
  /\ progress' = r.progress
  /\ file' = r.file
  /\ opWrites' = r.writes
  /\ opThrew' = r.threw
  /\ opBefore' = progress
  /\ lastOp' = name

\* The step calls no ProgressTracker method that changes anything.
NoCall ==
  /\ lastOp' = "none"
  /\ opWrites' = 0
  /\ opThrew' = FALSE
  /\ opBefore' = EmptyProgress
  /\ UNCHANGED <<progress, file>>

\* Nothing of the process survives its end but its exit code.
ProcessGone(code) ==
  /\ pc' = "off"
  /\ exitCode' = code
  /\ progress' = EmptyProgress
  /\ rows' = <<>>
  /\ startRow' = 0
  /\ i' = 0
  /\ outcome' = "none"
  /\ calls' = <<>>
  /\ error' = "none"
  /\ failedUploads' = <<>>
  /\ lastOp' = "none"
  /\ opWrites' = 0
  /\ opThrew' = FALSE
  /\ opBefore' = EmptyProgress
  /\ invoked' = <<>>
  /\ succeededRows' = {}
  /\ beforeRetry' = EmptyProgress
  /\ UNCHANGED <<sheet, faults, flights, stream, history, file, scratch, mode, fatalError, runs, marked, reprocessed, startFile,
                 prevFailed, failedRows>>

\* main: new DependencyContainer(config) constructs the ProgressTracker, whose
\* constructor loads the progress file.
Start(m) ==
  /\ pc = "off"
  /\ runs < MaxRuns
  /\ runs' = runs + 1
  /\ mode' = m
  /\ progress' = loadProgress(file)
  /\ lastOp' = "loadProgress"
  /\ startFile' = file
  /\ fatalError' = "none"
  /\ exitCode' = -1
  /\ pc' = "start"
  /\ UNCHANGED <<sheet, faults, flights, stream, history, file, scratch, rows, startRow, i, outcome, calls, error, failedUploads,
                 opWrites, opThrew, opBefore, marked, reprocessed, invoked, prevFailed,
                 failedRows, succeededRows, beforeRetry>>

StartNormal == Start("normal")

\* main: validateRequiredConfigFields reports missing fields; the process
\* prints them and calls process.exit(1) before anything is constructed.
MissingConfig ==
  /\ pc = "off"
  /\ runs < MaxRuns
  /\ runs' = runs + 1
  /\ fatalError' = "Missing required configuration"
  /\ exitCode' = 1
  /\ UNCHANGED <<sheet, faults, flights, stream, history, file, scratch, pc, mode, progress, rows, startRow, i, outcome,
                 calls, error, failedUploads, lastOp, opWrites, opThrew, opBefore, marked,
                 reprocessed, invoked, startFile, prevFailed, failedRows, succeededRows,
                 beforeRetry>>

StartRetry == Start("retry")

\* runApplication: createYouTubeBulkUploader throws because
\* authService.initialize() rejects.
CreateUploaderFails ==
  /\ pc = "start"
  /\ pc' = "fatal"
  /\ fatalError' = "Auth failed"
  /\ NoCall
  /\ UNCHANGED <<sheet, faults, flights, stream, history, scratch, mode, rows, startRow, i, outcome, calls, error, exitCode,
                 failedUploads, runs, marked, reprocessed, invoked, startFile, prevFailed,
                 failedRows, succeededRows, beforeRetry>>

\* retryFailedUploads, up to its first saveProgress; an error it throws
\* reaches runApplication.
RetryClear ==
  /\ pc = "start"
  /\ mode = "retry"
  /\ failedUploads' = progress.failedUploads
  /\ beforeRetry' = progress
  /\ \E w \in Outcomes("write", WriteOutcomes) :
       /\ Call("saveProgress", saveProgress([progress EXCEPT !.failedUploads = <<>>], w))
       /\ pc' = IF w = "ok" THEN "clearing" ELSE "fatal"
       /\ fatalError' = IF w = "ok" THEN fatalError ELSE w
  /\ UNCHANGED <<sheet, faults, flights, stream, history, scratch, mode, rows, startRow, i, outcome, calls, error, exitCode, runs,
                 marked, reprocessed, invoked, startFile, prevFailed, failedRows, succeededRows>>

\* A reset that empties processedIds whenever something had failed.
DeleteAll_ClearsAll(ids, failed) == IF failed = <<>> THEN ids ELSE <<>>

RECURSIVE DeleteAll(_, _)
DeleteAll(ids, failed) ==
  IF failed = <<>> THEN ids
  ELSE DeleteAll(SetDelete(ids, failed[1].uniqueId), Tail(failed))

\* A reset that also moves the cursor back to the top of the work list.
RetryDelete_ResetsCursor ==
  /\ pc = "clearing"
  /\ \E w \in Outcomes("write", WriteOutcomes) :
       /\ Call("saveProgress",
               saveProgress([progress EXCEPT !.processedIds = DeleteAll(@, failedUploads),
                                             !.lastProcessedRow = 0], w))
       /\ pc' = IF w = "ok" THEN "reset" ELSE "fatal"
       /\ fatalError' = IF w = "ok" THEN fatalError ELSE w
  /\ UNCHANGED <<sheet, faults, flights, stream, history, scratch, mode, rows, startRow, i, outcome, calls, error, exitCode,
                 failedUploads, runs, marked, reprocessed, invoked, startFile, prevFailed,
                 failedRows, succeededRows, beforeRetry>>

\* retryFailedUploads, from the loop over the copy to its second saveProgress.
RetryDelete ==
  /\ pc = "clearing"
  /\ \E w \in Outcomes("write", WriteOutcomes) :
       /\ Call("saveProgress",
               saveProgress([progress EXCEPT !.processedIds = DeleteAll(@, failedUploads)], w))
       /\ pc' = IF w = "ok" THEN "reset" ELSE "fatal"
       /\ fatalError' = IF w = "ok" THEN fatalError ELSE w
  /\ UNCHANGED <<sheet, faults, flights, stream, history, scratch, mode, rows, startRow, i, outcome, calls, error, exitCode,
                 failedUploads, runs, marked, reprocessed, invoked, startFile, prevFailed,
                 failedRows, succeededRows, beforeRetry>>

AtProcessSpreadsheet == (pc = "start" /\ mode = "normal") \/ pc = "reset"

\* processSpreadsheet: the rows arrive; an empty sheet ends the call, otherwise
\* processVideoRows starts at startRow.
Fetch ==
  /\ AtProcessSpreadsheet
  /\ rows' = sheet
  /\ IF Len(sheet) = 0
       THEN /\ pc' = "done"
            /\ UNCHANGED <<startRow, i, invoked, prevFailed, failedRows, succeededRows>>
       ELSE /\ startRow' = startRowOf(progress)
            /\ i' = startRowOf(progress)
            /\ pc' = "loop"
            /\ invoked' = <<>>
            /\ prevFailed' = {r \in failedRows :
                                ~isVideoProcessed(progress, parseVideoRow(RowAt(sheet, r)).uniqueId)}
            /\ failedRows' = {}
            /\ succeededRows' = {}
  /\ NoCall
  /\ UNCHANGED <<sheet, faults, flights, stream, history, scratch, mode, outcome, calls, error, fatalError, exitCode,
                 failedUploads, runs, marked, reprocessed, startFile, beforeRetry>>

\* How fetchSpreadsheetData can fail.
FetchErrors == {"API error"}

\* A catch block that throws a new error in place of the one it caught.
rethrown_Wrapped(e) == "Fatal error"

\* The catch block of processSpreadsheet logs the message and throws the
\* error it caught.
rethrown(e) == e

\* processSpreadsheet: fetchSpreadsheetData throws; the error is logged and rethrown.
FetchFails ==
  /\ AtProcessSpreadsheet
  /\ pc' = "fatal"
  /\ \E e \in FetchErrors : fatalError' = rethrown(e)
  /\ NoCall
  /\ UNCHANGED <<sheet, faults, flights, stream, history, scratch, mode, rows, startRow, i, outcome, calls, error, exitCode,
                 failedUploads, runs, marked, reprocessed, invoked, startFile, prevFailed,
                 failedRows, succeededRows, beforeRetry>>

\* processVideoRows: the loop condition fails and processSpreadsheet logs the totals.
LoopEnds ==
  /\ pc = "loop"
  /\ ~(i < Len(rows))
  /\ pc' = "done"
  /\ NoCall
  /\ UNCHANGED <<sheet, faults, flights, stream, history, scratch, mode, rows, startRow, i, outcome, calls, error, fatalError,
                 exitCode, failedUploads, runs, marked, reprocessed, invoked, startFile,
                 prevFailed, failedRows, succeededRows, beforeRetry>>

\* A loop that also skips the rows whose id has a failure entry.
skipsRow_SkipsFailed(p, row) ==
  \/ ~parseVideoRow(row).valid
  \/ isVideoProcessed(p, parseVideoRow(row).uniqueId)
  \/ parseVideoRow(row).uniqueId \in FailedIds(p)

\* A loop without the isVideoProcessed check.
skipsRow_NoDedupe(p, row) == ~parseVideoRow(row).valid

skipsRow(p, row) ==
  \/ ~parseVideoRow(row).valid
  \/ isVideoProcessed(p, parseVideoRow(row).uniqueId)

\* A loop that moves the cursor past a row it skips.
SkipRow_AdvancesCursor ==
  /\ pc = "loop"
  /\ i < Len(rows)
  /\ skipsRow(progress, RowAt(rows, i))
  /\ i' = i + 1
  /\ Call("updateLastProcessedRow", updateLastProcessedRow(progress, i + 1, "ok"))
  /\ UNCHANGED <<sheet, faults, flights, stream, history, scratch, pc, mode, rows, startRow, outcome, calls, error, fatalError,
                 exitCode, failedUploads, runs, marked, reprocessed, invoked, startFile,
                 prevFailed, failedRows, succeededRows, beforeRetry>>

\* A loop that records a row that does not parse as a failure.
SkipRow_RecordsInvalidRow ==
  /\ pc = "loop"
  /\ i < Len(rows)
  /\ skipsRow(progress, RowAt(rows, i))
  /\ i' = i + 1
  /\ IF parseVideoRow(RowAt(rows, i)).valid
       THEN NoCall
       ELSE Call("markVideoFailed", markVideoFailed(progress, "", "Invalid row", Now, "ok"))
  /\ UNCHANGED <<sheet, faults, flights, stream, history, scratch, pc, mode, rows, startRow, outcome, calls, error, fatalError,
                 exitCode, failedUploads, runs, marked, reprocessed, invoked, startFile,
                 prevFailed, failedRows, succeededRows, beforeRetry>>

\* processVideoRows: a row that does not parse, or whose id is already processed.
SkipRow ==
  /\ pc = "loop"
  /\ i < Len(rows)
  /\ skipsRow(progress, RowAt(rows, i))
  /\ i' = i + 1
  /\ NoCall
  /\ UNCHANGED <<sheet, faults, flights, stream, history, scratch, pc, mode, rows, startRow, outcome, calls, error, fatalError,
                 exitCode, failedUploads, runs, marked, reprocessed, invoked, startFile,
                 prevFailed, failedRows, succeededRows, beforeRetry>>

\* A loop that goes on as after a success whatever processVideo did.
afterProcessVideo_ErrorIgnored(o) == "processed"

\* A loop whose call of processVideo is outside any try block.
afterProcessVideo_NoCatch(o) == IF o = "ok" THEN "processed" ELSE "fatal"

\* Where the try block goes after the awaited processVideo: on, or to the catch.
afterProcessVideo(o) == IF o = "ok" THEN "processed" ELSE "caught"

\* A loop that calls processVideo without awaiting it and goes on to the next
\* row with nothing recorded.
ProcessVideo_NotAwaited ==
  /\ pc = "loop"
  /\ i < Len(rows)
  /\ ~skipsRow(progress, RowAt(rows, i))
  /\ \E d \in Outcomes("download", DownloadOutcomes), u \in UploadOutcomes,
        c \in Outcomes("unlink", UnlinkOutcomes) :
       LET r == processVideo(parseVideoRow(RowAt(rows, i)), scratch, d, u, c)
       IN  /\ outcome' = r.outcome
           /\ calls' = r.calls
           /\ scratch' = r.scratch
  /\ i' = i + 1
  /\ invoked' = Append(invoked, i)
  /\ reprocessed' = reprocessed \cup ({parseVideoRow(RowAt(rows, i)).uniqueId} \cap marked)
  /\ NoCall
  /\ UNCHANGED <<sheet, faults, flights, stream, history, pc, mode, rows, startRow, error, fatalError, exitCode,
                 failedUploads, runs, marked, startFile, prevFailed, failedRows, succeededRows,
                 beforeRetry>>

\* processVideoRows: await videoProcessor.processVideo(videoData) returns, or
\* throws into the catch block.
ProcessVideo ==
  /\ pc = "loop"
  /\ i < Len(rows)
  /\ ~skipsRow(progress, RowAt(rows, i))
  /\ \E d \in Outcomes("download", DownloadOutcomes), u \in UploadOutcomes,
        c \in Outcomes("unlink", UnlinkOutcomes) :
       LET r == processVideo(parseVideoRow(RowAt(rows, i)), scratch, d, u, c)
       IN  /\ outcome' = r.outcome
           /\ calls' = r.calls
           /\ scratch' = r.scratch
           /\ error' = IF r.outcome = "ok" THEN "none" ELSE r.outcome
           /\ pc' = afterProcessVideo(r.outcome)
           /\ history' =
                LET id == parseVideoRow(RowAt(rows, i)).uniqueId
                    h == IF CallOf("uploadVideo", "ok") \in Range(r.calls)
                           THEN uploaded(history, i, id)
                           ELSE history
                IN  IF r.outcome = "ok" THEN returned(h, id) ELSE h
  /\ invoked' = Append(invoked, i)
  /\ reprocessed' = reprocessed \cup ({parseVideoRow(RowAt(rows, i)).uniqueId} \cap marked)
  /\ NoCall
  /\ UNCHANGED <<sheet, faults, flights, stream, mode, rows, startRow, i, fatalError, exitCode, failedUploads, runs,
                 marked, startFile, prevFailed, failedRows, succeededRows, beforeRetry>>

\* A try block that moves the cursor where it should record the id.
MarkProcessed_CursorFirst ==
  /\ pc = "processed"
  /\ \E w \in Outcomes("write", WriteOutcomes) :
       /\ Call("updateLastProcessedRow", updateLastProcessedRow(progress, i + 1, w))
       /\ error' = IF w = "ok" THEN "none" ELSE w
       /\ pc' = IF w = "ok" THEN "marked" ELSE "caught"
  /\ succeededRows' = succeededRows \cup {i}
  /\ UNCHANGED <<sheet, faults, flights, stream, history, scratch, mode, rows, startRow, i, outcome, calls, fatalError,
                 exitCode, failedUploads, runs, marked, reprocessed, invoked, startFile,
                 prevFailed, failedRows, beforeRetry>>

\* processVideoRows: progressTracker.markVideoProcessed(videoData.uniqueId); an
\* error it throws is caught by the catch block of the same iteration.
MarkProcessed ==
  /\ pc = "processed"
  /\ \E w \in Outcomes("write", WriteOutcomes) :
       LET id == parseVideoRow(RowAt(rows, i)).uniqueId
       IN  /\ Call("markVideoProcessed", markVideoProcessed(progress, id, w))
           /\ marked' = IF w = "ok" THEN marked \cup {id} ELSE marked
           /\ history' = IF w = "ok" THEN recorded(history, i) ELSE history
           /\ error' = IF w = "ok" THEN "none" ELSE w
           /\ pc' = IF w = "ok" THEN "marked" ELSE "caught"
  /\ succeededRows' = succeededRows \cup {i}
  /\ UNCHANGED <<sheet, faults, flights, stream, scratch, mode, rows, startRow, i, outcome, calls, fatalError, exitCode,
                 failedUploads, runs, reprocessed, invoked, startFile, prevFailed, failedRows,
                 beforeRetry>>

\* processVideoRows: progressTracker.updateLastProcessedRow(i + 1), then the
\* delay and the next iteration; an error it throws is caught by the catch block.
AdvanceRow ==
  /\ pc = "marked"
  /\ \E w \in Outcomes("write", WriteOutcomes) :
       /\ Call("updateLastProcessedRow", updateLastProcessedRow(progress, i + 1, w))
       /\ IF w = "ok"
            THEN /\ i' = i + 1
                 /\ error' = "none"
                 /\ pc' = "loop"
            ELSE /\ error' = w
                 /\ pc' = "caught"
                 /\ UNCHANGED i
  /\ UNCHANGED <<sheet, faults, flights, stream, history, scratch, mode, rows, startRow, outcome, calls, fatalError,
                 exitCode, failedUploads,
                 runs, marked, reprocessed, invoked, startFile, prevFailed, failedRows,
                 succeededRows, beforeRetry>>

\* processVideoRows: the catch block records the failure, then the delay and
\* the next iteration; an error markVideoFailed throws leaves the loop and
\* processSpreadsheet, which logs and rethrows it.
MarkFailed ==
  /\ pc = "caught"
  /\ \E w \in Outcomes("write", WriteOutcomes) :
       LET id == parseVideoRow(RowAt(rows, i)).uniqueId
       IN  /\ Call("markVideoFailed", markVideoFailed(progress, id, error, Now, w))
           /\ IF w = "ok"
                THEN /\ i' = i + 1
                     /\ error' = "none"
                     /\ pc' = "loop"
                     /\ UNCHANGED fatalError
                ELSE /\ fatalError' = rethrown(w)
                     /\ pc' = "fatal"
                     /\ UNCHANGED <<i, error>>
  /\ failedRows' = failedRows \cup {i}
  /\ UNCHANGED <<sheet, faults, flights, stream, history, scratch, mode, rows, startRow, outcome, calls, exitCode, failedUploads, runs, marked,
                 reprocessed, invoked, startFile, prevFailed, succeededRows, beforeRetry>>

\* A run that ends with exit code 0 whatever happened.
exitCodeAt_AlwaysZero(position) == 0

\* The catch block of runApplication calls process.exit(1); a run that
\* returns from runApplication ends with exit code 0.
exitCodeAt(position) == IF position = "fatal" THEN 1 ELSE 0

\* runApplication returns (the pass finished) or calls process.exit(1) in its
\* catch block.
Exit ==
  /\ pc \in {"done", "fatal"}
  /\ ProcessGone(exitCodeAt(pc))

\* The process is interrupted between two steps.
Crash ==
  /\ pc \in {"start", "clearing", "reset", "loop", "processed", "marked", "caught"}
  /\ ProcessGone(-1)

NextPass ==
  \/ StartNormal
  \/ MissingConfig
  \/ CreateUploaderFails
  \/ Fetch
  \/ FetchFails
  \/ LoopEnds
  \/ SkipRow
  \/ ProcessVideo
  \/ MarkProcessed
  \/ AdvanceRow
  \/ MarkFailed
  \/ Exit
  \/ Crash

Next ==
  \/ NextPass
  \/ StartRetry
  \/ RetryClear
  \/ RetryDelete

\* Behaviours in which the history of the uploads is not followed.
InitNoHistory == Init /\ ~history.kept /\ ~history.counted

\* An environment where the download, the removal of the scratch file and the
\* write of the progress file do not fail: an item fails by its upload.
InitNoFaults == InitNoHistory /\ faults = {} /\ sheet \in WorkLists

\* Every kind of run: normal passes and --retry-failed runs.
Spec == InitNoFaults /\ [][Next]_vars

\* Normal passes only.
SpecPass == InitNoFaults /\ [][NextPass]_vars

\* Normal passes, with the history of the uploads followed across processes.
InitHistory == Init /\ history.kept /\ ~history.counted /\ faults = {} /\ sheet \in WorkLists

SpecHistory == InitHistory /\ [][NextPass]_vars

\* Every kind of run, none interrupted.
NextUninterrupted ==
  \/ StartNormal
  \/ StartRetry
  \/ MissingConfig
  \/ CreateUploaderFails
  \/ RetryClear
  \/ RetryDelete
  \/ Fetch
  \/ FetchFails
  \/ LoopEnds
  \/ SkipRow
  \/ ProcessVideo
  \/ MarkProcessed
  \/ AdvanceRow
  \/ MarkFailed
  \/ Exit

\* Uninterrupted runs, with the successful uploads counted across processes.
InitUninterrupted ==
  Init /\ ~history.kept /\ history.counted /\ faults = {} /\ sheet \in WorkLists

SpecUninterrupted == InitUninterrupted /\ [][NextUninterrupted]_vars

\* Every kind of run of a first installation, interrupted or not, with the
\* successful uploads and the returns of processVideo counted across processes.
InitCounted == InitUninterrupted /\ file = Missing

SpecCounted == InitCounted /\ [][Next]_vars

\* Normal passes without end: once MaxRuns starts are counted, a further start
\* leaves the count as it is.
StartRepeated ==
  /\ pc = "off"
  /\ runs = MaxRuns
  /\ mode' = "normal"
  /\ progress' = loadProgress(file)
  /\ lastOp' = "loadProgress"
  /\ startFile' = file
  /\ fatalError' = "none"
  /\ exitCode' = -1
  /\ pc' = "start"
  /\ UNCHANGED <<sheet, faults, flights, stream, history, file, scratch, rows, startRow, i, outcome, calls, error, failedUploads,
                 opWrites, opThrew, opBefore, marked, reprocessed, invoked, prevFailed,
                 failedRows, succeededRows, beforeRetry, runs>>

\* The point from which on every processing attempt succeeds: the last start
\* that is counted.
Settled == runs = MaxRuns

ProcessVideoSettled == ProcessVideo /\ (Settled => outcome' = "ok")

NextRepeated ==
  \/ StartNormal
  \/ StartRepeated
  \/ Fetch
  \/ LoopEnds
  \/ SkipRow
  \/ ProcessVideoSettled
  \/ MarkProcessed
  \/ AdvanceRow
  \/ MarkFailed
  \/ Exit

\* Uninterrupted normal passes of a first installation, one after the other
\* for ever: a process that can take a step takes one.
InitRepeated == InitNoFaults /\ file = Missing

SpecRepeated == InitRepeated /\ [][NextRepeated]_vars /\ WF_vars(NextRepeated)

\* A first installation (no progress file yet) where the write of the progress
\* file can fail.
InitStoreFaults == InitNoHistory /\ faults = {"write"} /\ file = Missing /\ sheet \in WorkLists

SpecStoreFaults == InitStoreFaults /\ [][Next]_vars

\* A first installation where the removal of the scratch file can fail.
InitCleanupFaults == InitNoHistory /\ faults = {"unlink"} /\ file = Missing /\ sheet \in WorkLists

SpecCleanupFaults == InitCleanupFaults /\ [][Next]_vars

\* Uninterrupted normal passes of a first installation, over work lists with
\* malformed links and empty rows, where the download can fail.
NextPipeline ==
  \/ StartNormal
  \/ Fetch
  \/ LoopEnds
  \/ SkipRow
  \/ ProcessVideo
  \/ MarkProcessed
  \/ AdvanceRow
  \/ MarkFailed
  \/ Exit

InitPipeline == InitNoHistory /\ faults = {"download"} /\ file = Missing /\ sheet \in LinkWorkLists

SpecPipeline == InitPipeline /\ [][NextPipeline]_vars

\* Uninterrupted normal passes of a first installation over work lists whose
\* rows differ in their cells.
InitCells == InitNoHistory /\ faults = {} /\ file = Missing /\ sheet \in CellWorkLists

SpecCells == InitCells /\ [][NextPipeline]_vars

\* ------------------------------------------- processVideo side by side
ConcurrentFrame ==
  UNCHANGED <<sheet, faults, stream, history, file, pc, mode, progress, rows, startRow, i, outcome, calls,
              error, fatalError, exitCode, failedUploads, runs, lastOp, opWrites, opThrew,
              opBefore, marked, reprocessed, invoked, startFile, prevFailed, failedRows,
              succeededRows, beforeRetry>>

\* processVideo(video) up to its first await: the link is valid, mkdir, the
\* path, and downloadFile is called.
FlightStarts(id) ==
  /\ flights[id].pos = "idle"
  /\ flights' = [flights EXCEPT ![id] = [@ EXCEPT !.pos = "downloading",
                                                   !.calls = <<CallOf("mkdir", "ok")>>]]
  /\ UNCHANGED scratch
  /\ ConcurrentFrame

\* downloadFile has written the file at the path and resolves; a file another
\* call had downloaded to the same path is overwritten.
FlightDownloaded(id) ==
  /\ flights[id].pos = "downloading"
  /\ scratch' = scratch \cup {tempVideoPath(id)}
  /\ flights' = [x \in ConcurrentIds |->
                   IF x = id
                     THEN [flights[x] EXCEPT !.pos = "downloaded",
                                             !.calls = Append(@, CallOf("downloadFile", "ok"))]
                   ELSE IF x \in HoldersOf(tempVideoPath(id), id)
                     THEN [flights[x] EXCEPT !.intact = FALSE]
                   ELSE flights[x]]
  /\ ConcurrentFrame

\* processVideo goes on after the download: uploadVideo calls stat on the
\* path, which throws when the file is gone (the finally block then calls
\* unlink, which throws the same), and otherwise starts the upload.
FlightUploadStarts(id) ==
  /\ flights[id].pos = "downloaded"
  /\ flights' = [flights EXCEPT ![id] =
                   IF tempVideoPath(id) \in scratch
                     THEN [@ EXCEPT !.pos = "uploading"]
                     ELSE [@ EXCEPT !.pos = "done",
                                    !.calls = @ \o <<CallOf("uploadVideo", NoSuchFile),
                                                     CallOf("unlink", NoSuchFile)>>,
                                    !.outcome = finallyUnlink(NoSuchFile, NoSuchFile)]]
  /\ UNCHANGED scratch
  /\ ConcurrentFrame

\* The upload settles and the finally block calls unlink on the path.
FlightUploadEnds(id) ==
  /\ flights[id].pos = "uploading"
  /\ \E u \in UploadOutcomes :
       LET c == IF tempVideoPath(id) \in scratch THEN "ok" ELSE NoSuchFile
       IN  flights' = [flights EXCEPT ![id] =
                         [@ EXCEPT !.pos = "done",
                                   !.calls = @ \o <<CallOf("uploadVideo", u), CallOf("unlink", c)>>,
                                   !.outcome = finallyUnlink(u, c)]]
  /\ scratch' = scratch \ {tempVideoPath(id)}
  /\ ConcurrentFrame

NextConcurrent ==
  \E id \in ConcurrentIds :
    \/ FlightStarts(id)
    \/ FlightDownloaded(id)
    \/ FlightUploadStarts(id)
    \/ FlightUploadEnds(id)

\* A caller of processVideo alone: no pass runs.
InitConcurrent == InitNoFaults /\ sheet = <<>> /\ file = Missing

SpecConcurrent == InitConcurrent /\ [][NextConcurrent]_vars

\* ------------------------------------ downloadFile and the upload after it
StreamFrame ==
  UNCHANGED <<sheet, faults, flights, history, file, scratch, pc, mode, progress, rows, startRow, i,
              outcome, calls, error, fatalError, exitCode, failedUploads, runs, lastOp, opWrites,
              opThrew, opBefore, marked, reprocessed, invoked, startFile, prevFailed, failedRows,
              succeededRows, beforeRetry>>

\* downloadFile: drive.files.get returns the response stream of a file of n
\* chunks, createWriteStream opens the scratch file, and the listeners and the
\* pipe are set up.
DownloadStarts(n) ==
  /\ stream.pos = "idle"
  /\ stream' = [stream EXCEPT !.pos = "piping", !.chunks = n]
  /\ StreamFrame

\* The source emits 'data': pipe hands the chunk to dest.write, which keeps it
\* until the file system has taken it.
SourceData ==
  /\ stream.pos = "piping"
  /\ stream.piped < stream.chunks
  /\ stream' = [stream EXCEPT !.piped = @ + 1]
  /\ StreamFrame

\* The write stream writes the next chunk it holds to the scratch file; it
\* does so whether or not the promise of downloadFile has settled.
DestWrites ==
  /\ stream.pos # "idle"
  /\ stream.written < stream.piped
  /\ stream' = [stream EXCEPT !.written = @ + 1]
  /\ StreamFrame

\* The source emits 'end' after its last chunk: the listener of downloadFile
\* logs and calls resolve().
SourceEnd ==
  /\ stream.pos = "piping"
  /\ stream.piped = stream.chunks
  /\ stream' = [stream EXCEPT !.pos = "resolved", !.outcome = "ok"]
  /\ StreamFrame

\* The source emits 'error': the listener logs and calls reject(err);
\* processVideo throws and no upload follows.
SourceError ==
  /\ stream.pos = "piping"
  /\ stream.piped < stream.chunks
  /\ stream' = [stream EXCEPT !.pos = "rejected", !.outcome = "Download failed: Network error"]
  /\ StreamFrame

\* processVideo goes on after the await: uploadVideo calls stat on the scratch
\* file and takes its size as it is then.
UploadStat ==
  /\ stream.pos = "resolved"
  /\ stream' = [stream EXCEPT !.pos = "uploading", !.size = stream.written]
  /\ StreamFrame

\* The read stream of the upload reaches the end of the scratch file as it is
\* then.
UploadReads ==
  /\ stream.pos = "uploading"
  /\ stream' = [stream EXCEPT !.pos = "sent", !.sent = stream.written]
  /\ StreamFrame

NextDownload ==
  \/ \E n \in 1..MaxChunks : DownloadStarts(n)
  \/ SourceData
  \/ DestWrites
  \/ SourceEnd
  \/ SourceError
  \/ UploadStat
  \/ UploadReads

\* One processVideo call from its downloadFile on: no pass runs.
InitDownload == InitNoFaults /\ sheet = <<>> /\ file = Missing

SpecDownload == InitDownload /\ [][NextDownload]_vars

\* ------------------------------------------------ the tracker on its own
\* A caller of IProgressTracker that constructs a tracker and calls its
\* mutators in any order with any arguments, and goes on after a call threw.
MaxFailures == 2    \* failure records a tracker caller appends

Positions == 0..MaxRows

TrackerFrame ==
  UNCHANGED <<sheet, faults, flights, stream, history, scratch, pc, mode, rows, startRow, i, outcome, calls, error, fatalError,
              exitCode, failedUploads, runs, marked, reprocessed, invoked, startFile,
              prevFailed, failedRows, succeededRows, beforeRetry>>

TrackerMarkProcessed ==
  /\ pc = "start"
  /\ \E id \in Ids, w \in Outcomes("write", WriteOutcomes) :
       Call("markVideoProcessed", markVideoProcessed(progress, id, w))
  /\ TrackerFrame

TrackerMarkFailed ==
  /\ pc = "start"
  /\ Len(progress.failedUploads) < MaxFailures
  /\ \E id \in Ids, e \in Errors, w \in Outcomes("write", WriteOutcomes) :
       Call("markVideoFailed", markVideoFailed(progress, id, e, Now, w))
  /\ TrackerFrame

TrackerUpdateRow ==
  /\ pc = "start"
  /\ \E r \in Positions, w \in Outcomes("write", WriteOutcomes) :
       Call("updateLastProcessedRow", updateLastProcessedRow(progress, r, w))
  /\ TrackerFrame

TrackerDropped ==
  /\ pc = "start"
  /\ ProcessGone(-1)

NextTracker ==
  \/ StartNormal
  \/ TrackerMarkProcessed
  \/ TrackerMarkFailed
  \/ TrackerUpdateRow
  \/ TrackerDropped

\* The sheet plays no part here.
InitTracker == InitNoFaults /\ sheet = <<>>

SpecTracker == InitTracker /\ [][NextTracker]_vars

\* ------------------------------------------------------------- properties
IdOfRow(r) == parseVideoRow(RowAt(sheet, r)).uniqueId

WellFormedRows == {r \in 1..(Len(sheet) - 1) : parseVideoRow(RowAt(sheet, r)).valid}

Persisted == loadProgress(file)

UniqueIds == \A r, q \in WellFormedRows : IdOfRow(r) = IdOfRow(q) => r = q

Mutators == {"markVideoProcessed", "markVideoFailed", "updateLastProcessedRow"}

\* C2: each of markVideoProcessed, markVideoFailed and updateLastProcessedRow
\* makes exactly one write, and when it has returned the progress file
\* deserializes to the tracker's in-memory state; also when the call found
\* nothing to change.  Checked over every caller of the tracker (SpecTracker).
C2_PersistedBeforeReturn ==
  (lastOp \in Mutators /\ ~opThrew) =>
    /\ opWrites = 1
    /\ file.kind = "json"
    /\ deserializeProgress(file) = progress

\* markVideoProcessed for an id that was already processed.
C2_Witness ==
  /\ lastOp = "markVideoProcessed"
  /\ opBefore.processedIds # <<>>
  /\ progress = opBefore
  /\ opWrites = 1

AllDoneAtStart == \A r \in WellFormedRows : IdOfRow(r) \in Completed(loadProgress(startFile))

\* C4: a normal run that starts with the id of every well-formed row in
\* processedIds calls processVideo for no row and leaves the progress file as
\* it found it.
C4_IdempotentResume ==
  (pc # "off" /\ mode = "normal" /\ AllDoneAtStart) =>
    /\ invoked = <<>>
    /\ file = startFile

\* A second run that finished after skipping a row an earlier run had completed.
C4_Witness ==
  /\ pc = "done"
  /\ mode = "normal"
  /\ runs >= 2
  /\ AllDoneAtStart
  /\ \E r \in WellFormedRows : r >= startRow /\ IdOfRow(r) \in marked

PassCursor == loadProgress(startFile).lastProcessedRow

AllAttemptedBeforeRetry ==
  \A r \in WellFormedRows :
    IdOfRow(r) \in Completed(beforeRetry) \cup FailedIds(beforeRetry)

\* C6 as stated: the pass that retryFailedUploads runs calls processVideo for
\* exactly the well-formed rows whose ids were in failedUploads at call time
\* and skips every other row.  Stated for sheets with unique ids whose rows
\* have all been attempted before, so that every other row is a completed one.
C6_RetryProcessesExactlyFailed ==
  (pc = "done" /\ mode = "retry" /\ Len(rows) > 0 /\ UniqueIds /\ AllAttemptedBeforeRetry) =>
    Range(invoked) = {r \in WellFormedRows : IdOfRow(r) \in FailedIds(beforeRetry)}

\* C7 as stated: the pass that retryFailedUploads runs starts at row index 1
\* whatever the stored cursor is.
C7_RetryStartsAtFirstRow ==
  (mode = "retry" /\ pc \in {"loop", "processed", "marked", "done"} /\ Len(rows) > 0) =>
    startRow = 1

\* C8: when the reset of retryFailedUploads is over, failedUploads is empty,
\* processedIds has lost exactly the ids that were in failedUploads at call
\* time, the cursor is what it was, and the file holds that state.
C8_RetryIsolates ==
  pc = "reset" =>
    /\ progress.failedUploads = <<>>
    /\ Completed(progress) = Completed(beforeRetry) \ FailedIds(beforeRetry)
    /\ progress.lastProcessedRow = beforeRetry.lastProcessedRow
    /\ Persisted = progress

\* A reset that removed a failed id from processedIds and kept another id,
\* with a cursor that had moved.
C8_Witness ==
  /\ pc = "reset"
  /\ FailedIds(beforeRetry) \cap Completed(beforeRetry) # {}
  /\ Completed(progress) # {}
  /\ beforeRetry.lastProcessedRow > 0

\* C9 as stated: an id that is in processedIds because its transfer succeeded
\* is still there after the reset of retryFailedUploads (sheets with unique ids).
C9_RetryKeepsTransferred ==
  (pc = "reset" /\ UniqueIds) =>
    (marked \cap Completed(beforeRetry)) \subseteq Completed(progress)

\* C10 as stated: at no point of retryFailedUploads does the progress file hold
\* an empty failedUploads while an id of the drained failures is in processedIds.
C10_ResetAtomic ==
  (mode = "retry" /\ pc \in {"clearing", "reset"} /\ UniqueIds) =>
    ~(/\ Persisted.failedUploads = <<>>
      /\ FailedIds(beforeRetry) \cap Completed(Persisted) # {})

\* The work list of the worked example: a header, rowA (v1), rowB (v2).
ExampleSheet == <<Header, VideoRow("v1"), VideoRow("v2")>>

FailedIdSeq(p) == [k \in 1..Len(p.failedUploads) |-> p.failedUploads[k].uniqueId]

\* A pass over the example's work list that started from the empty state and
\* in which rowA succeeded and rowB failed.
ExampleFirstPass ==
  /\ pc = "done"
  /\ mode = "normal"
  /\ sheet = ExampleSheet
  /\ loadProgress(startFile) = EmptyProgress
  /\ succeededRows = {1}
  /\ failedRows = {2}

\* A pass over the same work list that started from completed = {v1} and
\* failures = [v2], and in which every attempt succeeded.
ExampleSecondPass ==
  /\ pc = "done"
  /\ mode = "normal"
  /\ sheet = ExampleSheet
  /\ Completed(loadProgress(startFile)) = {"v1"}
  /\ FailedIdSeq(loadProgress(startFile)) = <<"v2">>
  /\ failedRows = {}

\* C11 as stated: the first pass of the example ends with completed = {v1},
\* lastProcessedRow = 1 and failedUploads = [v2]; the second pass processes
\* only v2 and ends with completed = {v1, v2}, lastProcessedRow = 2 and
\* failedUploads unchanged.
C11_ExampleAsStated ==
  /\ ExampleFirstPass =>
       /\ Completed(Persisted) = {"v1"}
       /\ Persisted.lastProcessedRow = 1
       /\ FailedIdSeq(Persisted) = <<"v2">>
  /\ ExampleSecondPass =>
       /\ invoked = <<2>>
       /\ Completed(Persisted) = {"v1", "v2"}
       /\ Persisted.lastProcessedRow = 2
       /\ Persisted.failedUploads = loadProgress(startFile).failedUploads

\* C11 amended: the first pass of the example ends with completed = {v1},
\* lastProcessedRow = 2 (the index of rowA plus one) and failedUploads = [v2];
\* the second pass processes only v2 and ends with completed = {v1, v2},
\* lastProcessedRow = 3 and failedUploads unchanged.
C11_Example ==
  /\ ExampleFirstPass =>
       /\ Completed(Persisted) = {"v1"}
       /\ Persisted.lastProcessedRow = 2
       /\ FailedIdSeq(Persisted) = <<"v2">>
       /\ progress = Persisted
  /\ ExampleSecondPass =>
       /\ invoked = <<2>>
       /\ Completed(Persisted) = {"v1", "v2"}
       /\ Persisted.lastProcessedRow = 3
       /\ Persisted.failedUploads = loadProgress(startFile).failedUploads
       /\ progress = Persisted

\* The second pass of the example, finished: it found what the first pass of
\* the example had written and has processed rowB only.
C11_Witness ==
  /\ ExampleSecondPass
  /\ runs = 2
  /\ loadProgress(startFile) =
       [processedIds |-> <<"v1">>, lastProcessedRow |-> 2,
        failedUploads |-> <<[uniqueId |-> "v2", error |-> "Upload failed", timestamp |-> 1]>>]
  /\ invoked = <<2>>
  /\ succeededRows = {2}

MaxOf(S) == CHOOSE x \in S : \A y \in S : y <= x

InPass == pc \in {"loop", "processed", "marked", "caught", "done"}

\* The rows of the current pass for which updateLastProcessedRow has been
\* called: at "marked" the call for row i is still to come.
AdvancedRows == IF pc = "marked" THEN succeededRows \ {i} ELSE succeededRows

\* C12: updateLastProcessedRow is called only for the row passed to
\* processVideo last, only after its transfer succeeded, and only with that
\* row's index plus one, which is never below the cursor it replaces; during a
\* pass the cursor is the stored one until a row succeeds and from then on the
\* index of the last succeeded row plus one, so that no skipped, invalid or
\* failed row moves it.
C12_CursorOnSuccessPath ==
  /\ lastOp = "updateLastProcessedRow" =>
       /\ invoked # <<>>
       /\ invoked[Len(invoked)] \in succeededRows
       /\ invoked[Len(invoked)] \notin failedRows
       /\ progress.lastProcessedRow = invoked[Len(invoked)] + 1
       /\ progress.lastProcessedRow >= opBefore.lastProcessedRow
  /\ InPass =>
       /\ progress.lastProcessedRow =
            (IF AdvancedRows = {} THEN PassCursor ELSE MaxOf(AdvancedRows) + 1)
       /\ progress.lastProcessedRow >= PassCursor

\* A finished pass in which a row succeeded and a later row failed: the
\* cursor is the index of the succeeded row plus one.
C12_Witness ==
  /\ pc = "done"
  /\ succeededRows # {}
  /\ failedRows # {}
  /\ MaxOf(failedRows) > MaxOf(succeededRows)
  /\ progress.lastProcessedRow = MaxOf(succeededRows) + 1
  /\ progress.lastProcessedRow > PassCursor

\* The call of processVideo for row i has returned or thrown and the iteration
\* has not finished recording it.
Recording == pc \in {"processed", "marked", "caught"}

\* C13 as stated: every call of processVideo is followed, before the next row,
\* by exactly one record for its row: markVideoProcessed when it returned,
\* markVideoFailed when it threw, never none and never both.
C13_ExactlyOneRecord ==
  InPass =>
    /\ succeededRows \cap failedRows = {}
    /\ \A r \in Range(invoked) : (r = i /\ Recording) \/ r \in succeededRows \cup failedRows
    /\ lastOp = "markVideoProcessed" => outcome = "ok"
    /\ lastOp = "markVideoFailed" => outcome # "ok"

LastInvoked == invoked[Len(invoked)]

\* C14: when processVideo has failed for a row, the catch block appends
\* exactly one entry (the row's id, the error's message, the time) at the end
\* of failedUploads, whether or not the id has entries already, leaves
\* processedIds and lastProcessedRow as they were, persists that, and the loop
\* goes on with the next row.  Checked where the progress writes succeed.
C14_FailureRecorded ==
  lastOp = "markVideoFailed" =>
    /\ invoked # <<>>
    /\ outcome # "ok"
    /\ progress.failedUploads =
         Append(opBefore.failedUploads,
                [uniqueId |-> IdOfRow(LastInvoked), error |-> outcome, timestamp |-> Now])
    /\ progress.processedIds = opBefore.processedIds
    /\ progress.lastProcessedRow = opBefore.lastProcessedRow
    /\ Persisted = progress
    /\ pc = "loop"
    /\ i = LastInvoked + 1

\* A failure has just been recorded for an id that had an entry already.
C14_Witness ==
  /\ lastOp = "markVideoFailed"
  /\ IdOfRow(LastInvoked) \in FailedIds(opBefore)
  /\ Len(progress.failedUploads) = Len(opBefore.failedUploads) + 1
  /\ Completed(progress) # {}
  /\ pc = "loop"

\* processSpreadsheet has thrown: the process is at the catch of runApplication
\* and the error came neither from createYouTubeBulkUploader nor from the
\* saveProgress calls of retryFailedUploads.
PassThrew == pc = "fatal" /\ fatalError # "Auth failed" /\ lastOp # "saveProgress"

\* A pass that has ended normally has visited every row from startRow on:
\* each was passed to processVideo unless it is invalid or its id is completed.
VisitedAll ==
  (pc = "done" /\ Len(rows) > 0) =>
    /\ i >= Len(rows)
    /\ \A r \in startRow..(Len(rows) - 1) :
         \/ r \in Range(invoked)
         \/ ~parseVideoRow(RowAt(rows, r)).valid
         \/ isVideoProcessed(progress, parseVideoRow(RowAt(rows, r)).uniqueId)

AfterReset ==
  [beforeRetry EXCEPT !.failedUploads = <<>>,
                      !.processedIds = DeleteAll(@, beforeRetry.failedUploads)]

\* C16: when fetchSpreadsheetData has thrown, the error that reaches the
\* caller of processSpreadsheet is that error, processVideo has been called for
\* no row, and the progress, in memory and in the file, is what it was when
\* processSpreadsheet was called.
C16_WorkListReadFails ==
  PassThrew =>
    /\ fatalError \in FetchErrors
    /\ invoked = <<>>
    /\ rows = <<>>
    /\ mode = "normal" => (progress = loadProgress(startFile) /\ file = startFile)
    /\ mode = "retry" => (progress = AfterReset /\ file = serializeProgress(AfterReset))

\* A later run whose work-list read failed, with progress to leave alone.
C16_Witness ==
  /\ PassThrew
  /\ fatalError = "API error"
  /\ mode = "normal"
  /\ Completed(progress) # {}
  /\ progress.failedUploads # <<>>

\* The last process has exited by itself (it was not interrupted).
Exited == pc = "off" /\ runs > 0 /\ exitCode # -1

JustProcessed == pc \in {"processed", "caught"} /\ lastOp = "none"

\* The results of the calls of op that processVideo made for the last row.
ResultsOf(op) == {calls[k].result : k \in {n \in 1..Len(calls) : calls[n].op = op}}

\* C18: when downloadFile has succeeded, processVideo calls unlink on the
\* scratch file after uploadVideo whether the upload returned or threw, the
\* scratch file is gone afterwards, and processVideo ends as the upload ended:
\* an upload error is the error the catch block of the loop receives.  Checked
\* where unlink itself succeeds.
C18_CleanupAlwaysRuns ==
  (JustProcessed /\ "ok" \in ResultsOf("downloadFile")) =>
    /\ Len(calls) = 4
    /\ calls[3].op = "uploadVideo"
    /\ calls[4] = CallOf("unlink", "ok")
    /\ tempVideoPath(parseVideoRow(RowAt(rows, i)).uniqueId) \notin scratch
    /\ outcome = calls[3].result
    /\ pc = "caught" <=> calls[3].result # "ok"
    /\ pc = "caught" => error = calls[3].result

\* The upload threw after the download succeeded, and the scratch file was
\* removed.
C18_Witness ==
  /\ JustProcessed
  /\ CallOf("downloadFile", "ok") \in Range(calls)
  /\ CallOf("uploadVideo", "Upload failed") \in Range(calls)
  /\ CallOf("unlink", "ok") \in Range(calls)
  /\ scratch = {}
  /\ error = "Upload failed"

\* C19 as stated: when the upload has failed, the error processVideo ends with
\* and the reason markVideoFailed records are the upload's error, whether or
\* not unlink failed as well.
C19_CleanupErrorSwallowed ==
  /\ (JustProcessed /\ ResultsOf("uploadVideo") \cap Errors # {}) =>
       /\ outcome \in ResultsOf("uploadVideo")
       /\ error \in ResultsOf("uploadVideo")
  /\ (lastOp = "markVideoFailed" /\ ResultsOf("uploadVideo") \cap Errors # {}) =>
       progress.failedUploads[Len(progress.failedUploads)].error \in ResultsOf("uploadVideo")

\* The current row parses and its id is already processed.
AtCompletedRow ==
  /\ pc = "loop"
  /\ i < Len(rows)
  /\ parseVideoRow(RowAt(rows, i)).valid
  /\ isVideoProcessed(progress, parseVideoRow(RowAt(rows, i)).uniqueId)

\* C20: at a row whose id is already processed the loop goes on to the next
\* row and does nothing else: processVideo is not called, no method of the
\* tracker is called, the state in memory and the file stay as they are.
C20_DedupeSkip ==
  [][(AtCompletedRow /\ pc' # "off") =>
       /\ pc' = "loop"
       /\ i' = i + 1
       /\ lastOp' = "none"
       /\ opWrites' = 0
       /\ UNCHANGED <<progress, file, invoked, calls, scratch, outcome, failedRows,
                      succeededRows>>]_vars

\* The loop has just gone past a row of this pass whose id is processed and
\* for which processVideo was not called.
C20_Witness ==
  /\ pc = "loop"
  /\ lastOp = "none"
  /\ i > startRow
  /\ parseVideoRow(RowAt(rows, i - 1)).valid
  /\ isVideoProcessed(progress, parseVideoRow(RowAt(rows, i - 1)).uniqueId)
  /\ (i - 1) \notin Range(invoked)

\* The sequence holds row indexes in increasing order.
Increasing(s) == \A k \in 1..(Len(s) - 1) : s[k] < s[k + 1]

\* The rows the loop of the current pass has gone past.
Visited == startRow..(i - 1)

\* C21: a pass of processSpreadsheet starts at max(1, stored cursor) and
\* visits the rows from there to the last one, each once and in increasing
\* order: processVideo is called in that order, for no row before the start
\* and never for row 0, and every visited row for which it was not called is
\* one the loop skips; the pass ends when the index has reached the number of
\* rows.
C21_VisitsFromCursor ==
  (InPass /\ Len(rows) > 0) =>
    /\ startRow = Max(1, PassCursor)
    /\ startRow >= 1
    /\ i >= startRow
    /\ i <= Max(startRow, Len(rows))
    /\ Increasing(invoked)
    /\ Range(invoked) \subseteq startRow..(Len(rows) - 1)
    /\ Range(invoked) \subseteq (IF pc = "loop" \/ pc = "done" THEN Visited ELSE Visited \cup {i})
    /\ 0 \notin Range(invoked)
    /\ \A r \in Visited \ Range(invoked) : skipsRow(progress, RowAt(rows, r))
    /\ pc = "done" => i >= Len(rows)

\* A finished pass that found a cursor past the first data row and called
\* processVideo for the row at the cursor and for nothing else.
C21_Witness ==
  /\ pc = "done"
  /\ PassCursor = 2
  /\ startRow = 2
  /\ invoked = <<2>>

\* The current row is empty or does not parse.
AtUnparseableRow ==
  /\ pc = "loop"
  /\ i < Len(rows)
  /\ ~parseVideoRow(RowAt(rows, i)).valid

\* C22: at a row that is empty or does not parse the loop goes on to the
\* next row and does nothing else: processVideo is not called, nothing is
\* added to failedUploads, the cursor stays, no method of the tracker is
\* called and nothing is written.
C22_UnparseableRowSkipped ==
  [][AtUnparseableRow =>
       /\ pc' = "loop"
       /\ i' = i + 1
       /\ lastOp' = "none"
       /\ opWrites' = 0
       /\ UNCHANGED <<progress, file, invoked, calls, scratch, outcome, error, failedRows,
                      succeededRows>>]_vars

\* A finished first pass that called processVideo for the row after an empty
\* row, and recorded that row and nothing else.
C22_Witness ==
  /\ pc = "done"
  /\ runs = 1
  /\ invoked = <<2>>
  /\ RowAt(rows, 1) = EmptyRow
  /\ Len(progress.failedUploads) + Cardinality(Completed(progress)) = 1

\* The rows whose upload has succeeded in the current pass.
TransferredInPass == IF pc = "processed" THEN succeededRows \cup {i} ELSE succeededRows

\* The rows whose upload has succeeded at some time, in this process or an
\* earlier one (where the history is kept).
TransferredEver ==
  history.unrecorded \cup TransferredInPass \cup {r \in WellFormedRows : IdOfRow(r) \in marked}

\* C23 as stated: in every persisted state, every row that parses, was
\* transferred successfully at some time and lies before the cursor has its id
\* in processedIds.
C23_TransferredBeforeCursorCompleted ==
  \A r \in WellFormedRows \cap TransferredEver :
    r < Persisted.lastProcessedRow => IdOfRow(r) \in Completed(Persisted)

\* C23 amended: the id is persisted in processedIds before the cursor is
\* persisted past its row: in every persisted state, every row that parses,
\* lies before the cursor and was transferred successfully in the current pass,
\* or by a process that was not interrupted before markVideoProcessed returned,
\* has its id in processedIds; and when updateLastProcessedRow has put the
\* cursor after a row, that row's id is in the file already.
C23_RecordedBeforeCursor ==
  /\ \A r \in WellFormedRows :
       (r < Persisted.lastProcessedRow /\ (r \in TransferredInPass \/ IdOfRow(r) \in marked))
         => IdOfRow(r) \in Completed(Persisted)
  /\ lastOp = "updateLastProcessedRow" =>
       /\ Persisted.lastProcessedRow = i
       /\ (i - 1) \in succeededRows
       /\ IdOfRow(i - 1) \in Completed(Persisted)
       /\ IdOfRow(i - 1) \in Completed(opBefore)

\* updateLastProcessedRow has just put the cursor after a row transferred in
\* this pass, whose id the file holds.
C23_Witness ==
  /\ lastOp = "updateLastProcessedRow"
  /\ Persisted.lastProcessedRow = i
  /\ (i - 1) \in TransferredInPass
  /\ IdOfRow(i - 1) \in Completed(Persisted)
  /\ history.kept

\* C24 as stated: between two calls of the tracker the state getProgress
\* returns is the state the file holds, during retryFailedUploads and after a
\* call whose write failed as well.
C24_MemoryIsPersisted == pc # "off" => progress = Persisted

\* s is t with one element more at its end.
ExtendsByOne(s, t) == Len(s) = Len(t) + 1 /\ SubSeq(s, 1, Len(t)) = t

\* C25: each mutator of the tracker changes its own field only.
\* updateLastProcessedRow leaves processedIds and failedUploads alone and can
\* set the cursor to every row number, a lower one included;
\* markVideoProcessed changes processedIds only, keeping the ids it held;
\* markVideoFailed changes failedUploads only, by one entry at its end.
C25_OwnComponentOnly ==
  /\ lastOp = "updateLastProcessedRow" =>
       /\ progress.processedIds = opBefore.processedIds
       /\ progress.failedUploads = opBefore.failedUploads
  /\ lastOp = "markVideoProcessed" =>
       /\ progress.lastProcessedRow = opBefore.lastProcessedRow
       /\ progress.failedUploads = opBefore.failedUploads
       /\ Completed(opBefore) \subseteq Completed(progress)
       /\ Cardinality(Completed(progress)) <= Cardinality(Completed(opBefore)) + 1
  /\ lastOp = "markVideoFailed" =>
       /\ progress.processedIds = opBefore.processedIds
       /\ progress.lastProcessedRow = opBefore.lastProcessedRow
       /\ ExtendsByOne(progress.failedUploads, opBefore.failedUploads)
  /\ (pc = "start" /\ mode = "normal") =>
       \A r \in Positions : ENABLED (TrackerUpdateRow /\ progress'.lastProcessedRow = r)

\* updateLastProcessedRow has moved the cursor back in a tracker that holds
\* an id and a failure.
C25_Witness ==
  /\ lastOp = "updateLastProcessedRow"
  /\ progress.lastProcessedRow < opBefore.lastProcessedRow
  /\ progress.processedIds # <<>>
  /\ progress.failedUploads # <<>>
  /\ file = serializeProgress(progress)

\* The link of the row processVideo has just been called for.
LinkOfRow == parseVideoRow(RowAt(rows, i)).driveLink

\* C26: for a link from which no file id can be extracted processVideo throws
\* 'Invalid Google Drive link' before it calls anything: no mkdir, no
\* downloadFile, no uploadVideo, no unlink, and the scratch directory is as it
\* was; the loop records that message as the failure.
C26_InvalidLinkBeforeIO ==
  /\ (JustProcessed /\ extractFileIdFromDriveLink(LinkOfRow) = "") =>
       /\ outcome = "Invalid Google Drive link"
       /\ calls = <<>>
       /\ scratch = {}
       /\ pc = "caught"
       /\ error = "Invalid Google Drive link"
  /\ (JustProcessed /\ outcome = "Invalid Google Drive link") =>
       extractFileIdFromDriveLink(LinkOfRow) = ""

\* processVideo has thrown for a row with a malformed link, after a row for
\* which it called its collaborators.
C26_Witness ==
  /\ JustProcessed
  /\ LinkOfRow = "not-a-valid-url"
  /\ outcome = "Invalid Google Drive link"
  /\ calls = <<>>
  /\ Len(invoked) = 2

CallsProcessVideo == Len(invoked') = Len(invoked) + 1

\* processVideo has made all the calls of a pipeline that has ended.
PipelineEnded ==
  \/ calls = <<>>
  \/ calls[Len(calls)].op = "unlink"
  \/ calls[Len(calls)].op = "downloadFile" /\ calls[Len(calls)].result # "ok"

\* C28: one row at a time: when processVideo is called for a row, the loop
\* is between two iterations, the pipeline of every row it was called for
\* before in this pass has ended and left no scratch file, and the outcome of
\* each of them has been recorded by markVideoProcessed or markVideoFailed and
\* is in the file.
C28_OneRowAtATime ==
  [][CallsProcessVideo =>
       /\ pc = "loop"
       /\ PipelineEnded
       /\ scratch = {}
       /\ Range(invoked) \subseteq succeededRows \cup failedRows
       /\ \A r \in Range(invoked) :
            IdOfRow(r) \in Completed(Persisted) \cup FailedIds(Persisted)
       /\ invoked' = Append(invoked, i)
       /\ \A r \in Range(invoked) : r < i]_vars

\* processVideo has been called for a second row of a pass, after the first
\* one failed and was recorded.
C28_Witness ==
  /\ JustProcessed
  /\ Len(invoked) = 2
  /\ invoked[1] \in failedRows
  /\ IdOfRow(invoked[1]) \in FailedIds(Persisted)
  /\ i = invoked[2]

\* C29 as stated: processVideo calls for distinct ids that run side by side
\* do not interfere: a call that has ended has made one downloadFile, one
\* uploadVideo and one unlink call, each on its own path, and ended as its
\* upload ended; the file a call has downloaded is there until that call
\* removes it, and no other call writes over it.
C29_NoInterference ==
  \A id \in ConcurrentIds :
    /\ flights[id].pos = "done" =>
         /\ \E u \in UploadOutcomes :
              /\ flights[id].calls = <<CallOf("mkdir", "ok"), CallOf("downloadFile", "ok"),
                                       CallOf("uploadVideo", u), CallOf("unlink", "ok")>>
              /\ flights[id].outcome = u
    /\ flights[id].pos \in {"downloaded", "uploading"} => tempVideoPath(id) \in scratch
    /\ flights[id].intact

\* What deserializeProgress makes of what serializeProgress writes for the
\* state of the tracker.
RoundTrip == deserializeProgress(serializeProgress(progress))

Commas(chars) == {k \in 1..Len(chars) : chars[k] = ","}

Piece(chars, n) ==
  LET cuts == Commas(chars) \cup {0, Len(chars) + 1}
      from == CHOOSE k \in cuts : Cardinality({j \in cuts : j < k}) = n - 1
      to == CHOOSE k \in cuts : Cardinality({j \in cuts : j < k}) = n
  IN  SubSeq(chars, from + 1, to - 1)

\* A piece without the white space at its ends.
Trimmed(chars) ==
  LET inked == {k \in 1..Len(chars) : chars[k] \notin WhiteSpace}
  IN  IF inked = {} THEN <<>>
      ELSE SubSeq(chars, CHOOSE k \in inked : \A j \in inked : k <= j,
                         CHOOSE k \in inked : \A j \in inked : j <= k)

ExpectedTags(cell) ==
  IF cell = "" THEN <<>>
  ELSE [n \in 1..(Cardinality(Commas(Chars(cell))) + 1) |-> Trimmed(Piece(Chars(cell), n))]

DataRows == 1..(Len(sheet) - 1)

\* C31: parseVideoRow returns invalid exactly when the row has fewer than 5
\* cells or its reference, title, description or id cell is empty; otherwise
\* the work item has these four cells unchanged, a non-empty id, and as tags
\* the tags cell split on ',' with each piece trimmed, no tags for an empty
\* tags cell.
C31_ParseVideoRow ==
  \A r \in DataRows :
    LET row == RowAt(sheet, r)
        videoData == parseVideoRow(row)
        invalid == Len(row) < 5 \/ \E k \in {1, 2, 3, 5} : row[k] = ""
    IN  /\ ~videoData.valid <=> invalid
        /\ ~invalid =>
             /\ videoData.driveLink = row[1]
             /\ videoData.title = row[2]
             /\ videoData.description = row[3]
             /\ videoData.uniqueId = row[5]
             /\ videoData.uniqueId # ""
             /\ videoData.tags = ExpectedTags(row[4])

\* A pass has parsed a row with an empty piece and blanks in its tags cell and
\* passed it to processVideo, and has skipped a row with an empty id cell.
C31_Witness ==
  /\ pc = "done"
  /\ Len(rows) = 3
  /\ RowAt(rows, 1) = <<Link, "Title", "Desc", " a ,,b ", "v2">>
  /\ parseVideoRow(RowAt(rows, 1)).tags = << <<"a">>, <<>>, <<"b">> >>
  /\ RowAt(rows, 2) = <<Link, "Title", "Desc", "tag1", "">>
  /\ invoked = <<1>>

\* ------------------------------------------------------------------- C32
\* How the calls of processVideo of the current pass ended, in order.
PassOutcomes ==
  [k \in 1..Len(invoked) |-> IF invoked[k] \in succeededRows THEN "ok" ELSE "Upload failed"]

LegacyEnd == legacyProcessSpreadsheet(startFile, rows, PassOutcomes, Now)

\* C32: a pass of the refactored program that has ended left the progress file
\* with the same completed set, cursor and sequence of failed ids as the
\* processSpreadsheet of index.ts leaves it for the same rows, the same
\* progress file at its start and the same outcomes of the items, and has
\* called the item pipeline for the same rows in the same order.
C32_RefactoredAsLegacy ==
  pc = "done" =>
    /\ invoked = LegacyEnd.invoked
    /\ Completed(Persisted) = Completed(legacyLoadProgress(LegacyEnd.file))
    /\ Persisted.lastProcessedRow = legacyLoadProgress(LegacyEnd.file).lastProcessedRow
    /\ FailedIdSeq(Persisted) = FailedIdSeq(legacyLoadProgress(LegacyEnd.file))

\* A later pass has ended after one item failed and another succeeded, on a
\* progress file that already held a failure.
C32_Witness ==
  /\ pc = "done"
  /\ loadProgress(startFile).failedUploads # <<>>
  /\ Len(invoked) = 2
  /\ PassOutcomes = <<"Upload failed", "ok">>
  /\ LegacyEnd.invoked = <<1, 2>>

\* ------------------------------------------------------------------- C33
\* C33: where the ids of the work list are unique and no process is
\* interrupted (and no write or cleanup fails), over normal passes and
\* retryFailedUploads calls in any order the upload of no id succeeds more than
\* once.
C33_OneTransferPerId == UniqueIds => history.twice = {}

\* A --retry-failed run has ended after it took an id whose upload had
\* succeeded out of processedIds: the pass that followed did not upload it again.
C33_Witness ==
  /\ UniqueIds
  /\ pc = "done"
  /\ mode = "retry"
  /\ Len(rows) = 3
  /\ \E id \in history.once : id \notin Completed(Persisted)

\* ------------------------------------------------------------------- C34
AllCompleted == \A r \in WellFormedRows : IdOfRow(r) \in Completed(Persisted)

\* C34: over repeated passes on a fixed work list, if from some point on every
\* processing attempt succeeds, the id of every well-formed row is eventually
\* in the completed set of the progress file.
C34_EventualCompletion == <>[]Settled => <>AllCompleted

\* ------------------------------------------------------------------- C35
\* The upload of the last processVideo call succeeded.
UploadSucceeded == "ok" \in ResultsOf("uploadVideo")

\* C35: whenever the upload of an item has succeeded, processVideo returns and
\* the loop adds the id of the item to processedIds, also when the removal of
\* the scratch file failed afterwards; an item whose upload has succeeded is
\* not recorded as failed.
C35_NoSuccessLost ==
  /\ (JustProcessed /\ UploadSucceeded) => outcome = "ok" /\ pc = "processed"
  /\ (lastOp = "markVideoProcessed" /\ ~opThrew) =>
       parseVideoRow(RowAt(rows, i)).uniqueId \in Completed(progress)
  /\ (lastOp = "markVideoFailed" /\ invoked # <<>>) => ~UploadSucceeded

\* ------------------------------------------------------------------- C36
\* C36: from an empty progress state on, every id in processedIds, in memory
\* and in the progress file, is the id of a work item for which processVideo
\* has returned.
C36_CompletedWereTransferred ==
  /\ Completed(Persisted) \subseteq history.returned
  /\ Completed(progress) \subseteq history.returned

\* After an interrupted process and a --retry-failed run, the file holds an id
\* as completed while processVideo has returned for another id as well, which
\* is not completed.
C36_Witness ==
  /\ pc = "done"
  /\ mode = "retry"
  /\ Completed(Persisted) # {}
  /\ history.returned \ Completed(Persisted) # {}

\* ------------------------------------------------------------------- C37
\* retryFailedUploads has ended with the error of fetchSpreadsheetData.
RetryReadFailed == pc = "fatal" /\ mode = "retry" /\ fatalError \in FetchErrors

\* C37: when the read of the work list fails inside retryFailedUploads, the
\* progress file holds the progress state it held before the call: no failure
\* record is lost.
C37_RetryReadFailureKeepsRecords == RetryReadFailed => Persisted = loadProgress(startFile)

\* ------------------------------------------------------------------- C38
\* C38: downloadFile resolves only after all the downloaded data is in the
\* scratch file: whatever the order of the 'end' event of the source and the
\* writes of the write stream, the stat and the read of the upload that
\* follows see the whole file.
C38_UploadSeesWholeFile ==
  /\ stream.outcome = "ok" => stream.written = stream.chunks
  /\ stream.size \in {-1, stream.chunks}
  /\ stream.sent \in {-1, stream.chunks}
====
